---- MODULE Spec2Model ----
(***************************************************************************)
(* auth-service: the bootstrap (startServer) and the express application   *)
(* object (one route, one error-handling middleware) of src/src/server.ts. *)
(*                                                                         *)
(* Everything the process does that can be observed from outside (calls    *)
(* to listen, lines handed to the logger, lines printed on the console,    *)
(* the process exit, responses written to a request) is appended, in       *)
(* program order, to the sequence `trace`.                                 *)
(***************************************************************************)
EXTENDS Integers, Sequences, FiniteSets

\* Number of requests the server receives in one run.
MaxReq == 2

ReqIds == 1..MaxReq

\* Values Config.PORT may hold; 70000 is outside the range listen accepts.
Ports == {3000, 70000}

\* Ports another process may already be bound to.
BusyPorts == {{}, {3000}}

\* Major versions of the express dependency the build may resolve.
ExpressMajors == {4, 5}

Methods == {"GET", "POST"}
Paths == {"/", "/login"}

(***************************************************************************)
(* The error-shaped value read by the error handler: err.statusCode,       *)
(* err.name, err.message.  statusCode is a tagged value so that the absent *)
(* and the falsy cases of JavaScript are kept apart.                       *)
(***************************************************************************)
Undefined == [tag |-> "undefined", val |-> 0]
Null == [tag |-> "null", val |-> 0]
Num(n) == [tag |-> "number", val |-> n]

StatusCodes == {Undefined, Null, Num(0), Num(401), Num(503)}
ErrNames == {"UnauthorizedError", "Error"}
ErrMessages == {"You can not access this route", "boom"}

HttpErrors == [statusCode : StatusCodes, name : ErrNames, message : ErrMessages]

\* A request; err is <<>> or <<e>>, e the error a layer signalled for it.
PlainRequests == [method : Methods, path : Paths, err : {<<>>}]
FailedRequests == [method : {"POST"}, path : {"/login"}, err : {<<e>> : e \in HttpErrors}]
Requests == PlainRequests \cup FailedRequests

NoRequest == [method |-> "", path |-> "", err |-> <<>>]

VARIABLES
    PORT,          \* Config.PORT
    inUse,         \* ports held by other processes
    expressMajor,  \* the express version of the build
    pc,            \* "start", "listenPending", "bound", "noListener", "exited"
    exitCode,      \* -1 while the process runs, else its exit code
    reqs,          \* per request id: [st, r], st in "none", "pending", "done"
    trace          \* the observable effects, in program order

vars == <<PORT, inUse, expressMajor, pc, exitCode, reqs, trace>>

----------------------------------------------------------------------------
\* Response bodies.
NoBody == [kind |-> "none", text |-> "", error |-> <<>>]
Text(s) == [kind |-> "text", text |-> s, error |-> <<>>]
Json(errorList) == [kind |-> "json", text |-> "", error |-> errorList]

\* Events of the trace.
Ev(ev, req, level, text, port, status, body) ==
    [ev |-> ev, req |-> req, level |-> level, text |-> text, port |-> port,
     status |-> status, body |-> body]
ListenEv(port) == Ev("listen", 0, "", "", port, 0, NoBody)
LogEv(level, text, port, req) == Ev("log", req, level, text, port, 0, NoBody)
ConsoleEv(text) == Ev("console", 0, "error", text, -1, 0, NoBody)
ExitEv(code) == Ev("exit", 0, "", "", -1, code, NoBody)
ResEv(req, status, body) == Ev("res", req, "", "", -1, status, body)

----------------------------------------------------------------------------
\* What app.listen(port, cb) does for a port, given the ports in use.
ListenResult(port, busy) ==
    IF port < 0 \/ port > 65535 THEN "ERR_SOCKET_BAD_PORT"   \* thrown by listen
    ELSE IF port \in busy THEN "EADDRINUSE"                   \* 'error' event
    ELSE "listening"

\* JavaScript truthiness of err.statusCode.
Truthy(v) == v.tag = "number" /\ v.val # 0

\* Variant: err.statusCode ?? 500, which keeps a statusCode of 0.
StatusOfNullish(err) ==
    IF err.statusCode.tag = "number" THEN err.statusCode.val ELSE 500

\* const statusCode = err.statusCode || 500
StatusOf(err) == IF Truthy(err.statusCode) THEN err.statusCode.val ELSE 500

\* Variant: the envelope fills path and location from the error.
ErrorBodyPopulated(err) ==
    Json(<<[type |-> err.name, msg |-> err.message, path |-> err.name,
            location |-> "body"]>>)

\* The object handed to res.json.
ErrorBody(err) ==
    Json(<<[type |-> err.name, msg |-> err.message, path |-> "", location |-> ""]>>)

\* The lines the request handlers have logged so far.
LoggedErrors == SelectSeq(trace, LAMBDA e : e.ev = "log" /\ e.req # 0)

\* Variant: the root route fails once an earlier request has failed.
RootHandlerAfterFailure(id, r) ==
    IF LoggedErrors = <<>>
    THEN <<ResEv(id, 200, Text("Welcome to auth service"))>>
    ELSE <<ResEv(id, 500, Text("Internal Server Error"))>>

\* Variant: the route of lines 31-35, which passes a 401 error to next;
\* the error handler then logs it and answers with the envelope.
RootHandlerNextError(id, r) ==
    <<LogEv("error", "You can not access this route", -1, id),
      ResEv(id, 401, Json(<<[type |-> "UnauthorizedError",
                             msg |-> "You can not access this route",
                             path |-> "", location |-> ""]>>))>>

\* app.get('/', (req, res) => res.send('Welcome to auth service'))
RootHandler(id, r) == <<ResEv(id, 200, Text("Welcome to auth service"))>>

\* Variant: the response is written before the log line.
ErrorHandlerLogsLast(id, err) ==
    <<ResEv(id, StatusOf(err), ErrorBody(err)), LogEv("error", err.message, -1, id)>>

\* Variant: the list of error objects is a module-level array the handler
\* pushes to, so every envelope also carries the earlier errors.
ErrorHandlerSharedList(id, err) ==
    LET R == SelectSeq(trace, LAMBDA e : e.ev = "res" /\ e.body.kind = "json")
        earlier == IF R = <<>> THEN <<>> ELSE R[Len(R)].body.error
        own == [type |-> err.name, msg |-> err.message, path |-> "", location |-> ""]
    IN <<LogEv("error", err.message, -1, id),
         ResEv(id, StatusOf(err), Json(Append(earlier, own)))>>

\* Variant: after res.json the handler goes on and writes a second response.
ErrorHandlerRespondsTwice(id, err) ==
    <<LogEv("error", err.message, -1, id), ResEv(id, StatusOf(err), ErrorBody(err)),
      ResEv(id, StatusOf(err), Text(err.message))>>

\* app.use((err, req, res, next) => ...)
ErrorHandler(id, err) ==
    <<LogEv("error", err.message, -1, id), ResEv(id, StatusOf(err), ErrorBody(err))>>

\* The layer of the application a request is dispatched to.
Dispatch(r) ==
    IF r.method = "GET" /\ r.path = "/" THEN "root"
    ELSE IF r.err # <<>> THEN "error"
    ELSE "unmatched"

----------------------------------------------------------------------------
Init ==
    /\ PORT \in Ports
    /\ inUse \in BusyPorts
    /\ expressMajor \in ExpressMajors
    /\ pc = "start"
    /\ exitCode = -1
    /\ reqs = [id \in ReqIds |-> [st |-> "none", r |-> NoRequest]]
    /\ trace = <<>>

\* The three lines of the listen callback.
BootLines(port) ==
    <<LogEv("warn", "testing logger warn", -1, 0),
      LogEv("error", "testing logger error", -1, 0),
      LogEv("info", "Server listening on port", port, 0)>>

\* Variant: the catch block retries on another port instead of exiting.
StartServerRetry ==
    /\ pc = "start"
    /\ IF ListenResult(PORT, inUse) = "ERR_SOCKET_BAD_PORT"
       THEN trace' = trace \o <<ListenEv(PORT), ConsoleEv("ERR_SOCKET_BAD_PORT"), ListenEv(8080)>>
       ELSE trace' = trace \o <<ListenEv(PORT)>>
    /\ pc' = "listenPending"
    /\ UNCHANGED <<PORT, inUse, expressMajor, exitCode, reqs>>

\* startServer(): read the port, call listen inside try; a throw of listen
\* runs the catch block.
StartServer ==
    /\ pc = "start"
    /\ IF ListenResult(PORT, inUse) = "ERR_SOCKET_BAD_PORT"
       THEN /\ trace' = trace \o <<ListenEv(PORT), ConsoleEv("ERR_SOCKET_BAD_PORT"), ExitEv(1)>>
            /\ pc' = "exited"
            /\ exitCode' = 1
       ELSE /\ trace' = trace \o <<ListenEv(PORT)>>
            /\ pc' = "listenPending"
            /\ UNCHANGED exitCode
    /\ UNCHANGED <<PORT, inUse, expressMajor, reqs>>

\* The callback given to listen.  It runs once the server is listening;
\* express 5 also registers it for the server's 'error' event.
ListenCallback ==
    /\ pc = "listenPending"
    /\ \/ ListenResult(PORT, inUse) = "listening"
       \/ ListenResult(PORT, inUse) = "EADDRINUSE" /\ expressMajor = 5
    /\ trace' = trace \o BootLines(PORT)
    /\ pc' = IF ListenResult(PORT, inUse) = "listening" THEN "bound" ELSE "noListener"
    /\ UNCHANGED <<PORT, inUse, expressMajor, exitCode, reqs>>

\* express 4: nothing listens for the server's 'error' event, so the
\* runtime reports the error as uncaught and ends the process with code 1.
UnhandledListenError ==
    /\ pc = "listenPending"
    /\ ListenResult(PORT, inUse) = "EADDRINUSE"
    /\ expressMajor = 4
    /\ trace' = trace \o <<ConsoleEv("EADDRINUSE"), ExitEv(1)>>
    /\ pc' = "exited"
    /\ exitCode' = 1
    /\ UNCHANGED <<PORT, inUse, expressMajor, reqs>>

\* With no listener and nothing else pending the process may end, code 0.
ProcessDrain ==
    /\ pc = "noListener"
    /\ trace' = trace \o <<ExitEv(0)>>
    /\ pc' = "exited"
    /\ exitCode' = 0
    /\ UNCHANGED <<PORT, inUse, expressMajor, reqs>>

\* A request arrives at the listening server (ids number the arrivals).
Receive(id, r) ==
    /\ pc = "bound"
    /\ reqs[id].st = "none"
    /\ \A j \in ReqIds : j < id => reqs[j].st # "none"
    /\ reqs' = [reqs EXCEPT ![id] = [st |-> "pending", r |-> r]]
    /\ UNCHANGED <<PORT, inUse, expressMajor, pc, exitCode, trace>>

\* A handler has run for request id: its effects are appended, in order.
Finish(id, events) ==
    /\ trace' = trace \o events
    /\ reqs' = [reqs EXCEPT ![id].st = "done"]
    /\ UNCHANGED <<PORT, inUse, expressMajor, pc, exitCode>>

Ready(id, kind) ==
    /\ pc = "bound"
    /\ reqs[id].st = "pending"
    /\ Dispatch(reqs[id].r) = kind

HandleRoot(id) ==
    /\ Ready(id, "root")
    /\ Finish(id, RootHandler(id, reqs[id].r))

HandleError(id) ==
    /\ Ready(id, "error")
    /\ Finish(id, ErrorHandler(id, reqs[id].r.err[1]))

\* No layer matches and no error was signalled: express answers 404 itself.
HandleUnmatched(id) ==
    /\ Ready(id, "unmatched")
    /\ Finish(id, <<ResEv(id, 404, Text("Not Found"))>>)

Next ==
    \/ StartServer
    \/ ListenCallback
    \/ UnhandledListenError
    \/ ProcessDrain
    \/ \E id \in ReqIds, r \in Requests : Receive(id, r)
    \/ \E id \in ReqIds : HandleRoot(id)
    \/ \E id \in ReqIds : HandleError(id)
    \/ \E id \in ReqIds : HandleUnmatched(id)

Spec == Init /\ [][Next]_vars

----------------------------------------------------------------------------
(***************************************************************************)
(* Properties.                                                             *)
(***************************************************************************)
Done(id) == reqs[id].st = "done"
Req(id) == reqs[id].r
IsRootGet(r) == r.method = "GET" /\ r.path = "/"
IsFailed(r) == ~IsRootGet(r) /\ r.err # <<>>

\* Positions of the trace that belong to request id.
PosOf(id) == {i \in 1..Len(trace) : trace[i].req = id}
ResPos(id) == {i \in PosOf(id) : trace[i].ev = "res"}
LogPos(id) == {i \in PosOf(id) : trace[i].ev = "log"}

\* The responses written to request id, as <<status, body>> pairs.
Responses(id) ==
    LET R == SelectSeq(trace, LAMBDA e : e.ev = "res" /\ e.req = id)
    IN [i \in 1..Len(R) |-> <<R[i].status, R[i].body>>]

\* The lines the bootstrap handed to the logger, and the calls of listen.
BootLogs == SelectSeq(trace, LAMBDA e : e.ev = "log" /\ e.req = 0)
ListenCalls == SelectSeq(trace, LAMBDA e : e.ev = "listen")
ConsoleLines == SelectSeq(trace, LAMBDA e : e.ev = "console")
Levels(L) == [i \in 1..Len(L) |-> L[i].level]

BindFailed == ListenResult(PORT, inUse) # "listening"

\* C1: every handled GET / got status 200 and the body "Welcome to auth
\* service", whatever was handled before it.
C1_RootAnswersWelcome ==
    \A id \in ReqIds :
        Done(id) /\ IsRootGet(Req(id)) =>
            Responses(id) = << <<200, Text("Welcome to auth service")>> >>

\* C1 witness: a GET / answered after a failed request was answered.
C1_Witness ==
    \E id \in ReqIds, j \in ReqIds :
        /\ Done(id) /\ IsRootGet(Req(id))
        /\ Done(j) /\ IsFailed(Req(j))
        /\ \E a \in ResPos(j), b \in ResPos(id) : a < b

\* C2: the error handler answers with err.statusCode when it is truthy and
\* with 500 when it is undefined, null or 0, and with nothing else.
C2_StatusFromError ==
    \A id \in ReqIds :
        Done(id) /\ IsFailed(Req(id)) =>
            LET sc == Req(id).err[1].statusCode
            IN \A i \in ResPos(id) :
                /\ sc.tag = "number" /\ sc.val # 0 => trace[i].status = sc.val
                /\ sc.tag \in {"undefined", "null"} => trace[i].status = 500
                /\ sc.tag = "number" /\ sc.val = 0 => trace[i].status = 500

\* C2 witness: one error with a truthy status code and one with statusCode 0
\* have both been answered.
C2_Witness ==
    \E id \in ReqIds, j \in ReqIds :
        /\ Done(id) /\ IsFailed(Req(id)) /\ Req(id).err[1].statusCode = Num(401)
        /\ Done(j) /\ IsFailed(Req(j)) /\ Req(j).err[1].statusCode = Num(0)
        /\ ResPos(id) # {} /\ ResPos(j) # {}

\* C3: the JSON body of the error handler is {error: [one object]} with
\* type = err.name, msg = err.message and empty path and location.
C3_ErrorEnvelope ==
    \A id \in ReqIds :
        Done(id) /\ IsFailed(Req(id)) =>
            \A i \in ResPos(id) :
                LET b == trace[i].body
                    e == Req(id).err[1]
                IN /\ b.kind = "json"
                   /\ Len(b.error) = 1
                   /\ b.error[1].type = e.name
                   /\ b.error[1].msg = e.message
                   /\ b.error[1].path = ""
                   /\ b.error[1].location = ""

\* C3 witness: an error whose name and message are both non-default has
\* been answered.
C3_Witness ==
    \E id \in ReqIds :
        /\ Done(id) /\ IsFailed(Req(id)) /\ ResPos(id) # {}
        /\ Req(id).err[1].name = "UnauthorizedError"
        /\ Req(id).err[1].message = "You can not access this route"

\* C4: once a bind failure has been delivered, the error has been printed
\* and the process has ended with exit code 1.
C4_BindFailureExitsOne ==
    BindFailed /\ pc \notin {"start", "listenPending"} =>
        /\ pc = "exited"
        /\ exitCode = 1
        /\ ConsoleLines # <<>>

\* C5: the bootstrap logs exactly warn, error, info once the bind has
\* succeeded, the process then keeps running, and no line is logged
\* before the bind has succeeded or when the bind fails.
C5_BootLinesOnlyOnSuccess ==
    /\ pc = "bound" => Levels(BootLogs) = <<"warn", "error", "info">> /\ exitCode = -1
    /\ pc \in {"start", "listenPending"} => BootLogs = <<>>
    /\ BindFailed => BootLogs = <<>>

\* C6: a handled error produced exactly one log line, at error severity,
\* with text err.message, and that line precedes the response.
C6_ErrorLoggedThenAnswered ==
    \A id \in ReqIds :
        Done(id) /\ IsFailed(Req(id)) =>
            /\ Cardinality(LogPos(id)) = 1
            /\ \A l \in LogPos(id) :
                /\ trace[l].level = "error"
                /\ trace[l].text = Req(id).err[1].message
                /\ \A i \in ResPos(id) : l < i
            /\ ResPos(id) # {}

\* C6 witness: two errors have been handled, so log lines and responses of
\* different requests alternate in the trace.
C6_Witness ==
    \E id \in ReqIds, j \in ReqIds :
        /\ id # j
        /\ Done(id) /\ IsFailed(Req(id))
        /\ Done(j) /\ IsFailed(Req(j))
        /\ \E a \in ResPos(id), l \in LogPos(j) : a < l

\* Two handled requests with the same input have the same responses.
SameRequestSameResponse ==
    \A id \in ReqIds, j \in ReqIds :
        Done(id) /\ Done(j) /\ Req(id) = Req(j) => Responses(id) = Responses(j)

\* A step that handles request id appends to the trace, and what it appends
\* is log lines and responses of request id only; nothing else changes.
HandlerWritesOwnOnly ==
    \A id \in ReqIds :
        reqs[id].st = "pending" /\ reqs'[id].st = "done" =>
            /\ Len(trace') >= Len(trace)
            /\ SubSeq(trace', 1, Len(trace)) = trace
            /\ \A i \in (Len(trace) + 1)..Len(trace') :
                trace'[i].req = id /\ trace'[i].ev \in {"log", "res"}
            /\ \A j \in ReqIds \ {id} : reqs'[j] = reqs[j]
            /\ reqs'[id].r = reqs[id].r
            /\ UNCHANGED <<PORT, inUse, expressMajor, pc, exitCode>>

\* C7: under every interleaving the response to a request depends on that
\* request alone, and a handler writes nothing but its own log lines and
\* its own response.
C7_RequestsIndependent == []SameRequestSameResponse /\ [][HandlerWritesOwnOnly]_vars

\* C7 witness: the same failed request was handled twice, the second time
\* with the first one's log line and response already written.
C7_Witness ==
    \E id \in ReqIds, j \in ReqIds :
        /\ id # j
        /\ Done(id) /\ Done(j)
        /\ IsFailed(Req(id)) /\ Req(id) = Req(j)
        /\ \E a \in ResPos(id), b \in ResPos(j) : a < b

\* C8: listen is called once, with Config.PORT, and never again, also
\* after a bind failure.
C8_ListenOnce ==
    /\ Len(ListenCalls) <= 1
    /\ pc # "start" => Len(ListenCalls) = 1
    /\ \A i \in 1..Len(ListenCalls) : ListenCalls[i].port = PORT

\* C8 witness: the bind has failed and the process is past the failure.
C8_Witness ==
    /\ BindFailed
    /\ pc \in {"exited", "noListener"}
    /\ Len(ListenCalls) = 1

\* C9: a request handled by the root route or by the error handler has
\* exactly one response, which is the last thing done for it; a request
\* not yet handled has none.
C9_ExactlyOneResponse ==
    \A id \in ReqIds :
        /\ Done(id) /\ (IsRootGet(Req(id)) \/ IsFailed(Req(id))) =>
            /\ Cardinality(ResPos(id)) = 1
            /\ \A i \in ResPos(id), k \in PosOf(id) : k <= i
        /\ ~Done(id) => PosOf(id) = {}

\* C9 witness: a root request and a failed request have both been handled.
C9_Witness ==
    \E id \in ReqIds, j \in ReqIds :
        /\ Done(id) /\ IsRootGet(Req(id))
        /\ Done(j) /\ IsFailed(Req(j))
        /\ \E a \in ResPos(id), b \in ResPos(j) : a < b

\* C10: handling GET / writes no error-severity log line and no JSON error
\* envelope.
C10_RootNeverFails ==
    \A id \in ReqIds :
        IsRootGet(Req(id)) =>
            \A i \in PosOf(id) :
                /\ ~(trace[i].ev = "log" /\ trace[i].level = "error")
                /\ ~(trace[i].ev = "res" /\ trace[i].body.kind = "json")

\* C10 witness: two GET / requests have been answered.
C10_Witness ==
    \E id \in ReqIds, j \in ReqIds :
        /\ id # j
        /\ Done(id) /\ IsRootGet(Req(id)) /\ ResPos(id) # {}
        /\ Done(j) /\ IsRootGet(Req(j)) /\ ResPos(j) # {}

====
